---- MODULE Spec2Model ----
(***************************************************************************)
(* HTTP/3 connection layer of mitmproxy                                    *)
(* (mitmproxy/proxy/layers/http/_http3.py): Http3Connection, Http3Server   *)
(* and Http3Client, driven one notification at a time.                     *)
(*                                                                         *)
(* The wire adapter (LayeredH3Connection, _http_h3.py), the event classes  *)
(* and the status-code table are not part of the translated file; they are *)
(* modelled from the specification's description of their interface.       *)
(***************************************************************************)
EXTENDS Integers, Sequences, FiniteSets, TLC

\* ------------------------------------------------------------------ bounds
\* number of stream ids each side may open (and of logical ids of the client role)
NumStreams == 2
\* largest number of H3 events one wire notification is demultiplexed into
MaxEvents == 2

\* ------------------------------------------------------- program constants
CLIENT_CLOSED_REQUEST == 499
NO_RESPONSE == 444
BAD_REQUEST == 400
BAD_GATEWAY == 502

Roles == {"server", "client"}

\* stream ids opened by the initiating side of the QUIC connection: 0, 4, 8, ...
OwnIds(n) == {4 * i : i \in 0 .. (n - 1)}
\* a bidirectional stream id opened by the responding side
PeerIds == {1}
\* the logical ids the upstream half of the proxy uses towards the client role
LogicalIds(n) == {101 + 2 * i : i \in 0 .. (n - 1)}
\* every physical stream id of the model
AllIds == OwnIds(NumStreams) \cup PeerIds

\* the generic status codes drawn for the code-mapping round trip
StatusCodes == 400 .. 599
\* the codes an outbound ProtocolError carries in the connection model
ErrorCodes == {CLIENT_CLOSED_REQUEST, NO_RESPONSE, BAD_GATEWAY}

\* ---------------------------------------------------------------- helpers
EmptyMap == [x \in {} |-> 0]
Put(f, k, v) == [x \in (DOMAIN f) \cup {k} |-> IF x = k THEN v ELSE f[x]]
Min(S) == CHOOSE x \in S : \A y \in S : x <= y

RECURSIVE Ascending(_)
Ascending(S) == IF S = {} THEN <<>> ELSE <<Min(S)>> \o Ascending(S \ {Min(S)})

RECURSIVE Flatten(_)
Flatten(ss) == IF ss = <<>> THEN <<>> ELSE Head(ss) \o Flatten(Tail(ss))

\* ----------------------------------------------------- events and commands
\* flavor of the HttpEvents a role receives from the wire / is asked to send
ReceiveFlavor(r) == IF r = "server" THEN "Request" ELSE "Response"
SendFlavor(r) == IF r = "server" THEN "Response" ELSE "Request"

HttpEvent(t, f, s, e, c) ==
    [type |-> t, flavor |-> f, stream_id |-> s, end_stream |-> e, code |-> c]
NoEvent == HttpEvent("", "", -1, FALSE, 0)

\* the outbound HttpEvents of flavor f on the stream ids S
HttpEvents(f, S) ==
    {HttpEvent(t, f, s, FALSE, 0) : t \in {"Data", "Trailers", "EndOfMessage", "Other"}, s \in S}
    \cup {HttpEvent("Headers", f, s, e, 0) : s \in S, e \in BOOLEAN}
    \cup {HttpEvent("ProtocolError", f, s, FALSE, c) : s \in S, c \in ErrorCodes}

H3Event(t, s, p, e, d, v, c) ==
    [type |-> t, stream_id |-> s, push |-> p, stream_ended |-> e, data |-> d,
     valid |-> v, error_code |-> c]

\* the H3 events without push id on stream s
PlainH3Events(s) ==
    {H3Event("StreamReset", s, FALSE, FALSE, FALSE, TRUE, c) :
        c \in {"H3_REQUEST_CANCELLED", "H3_INTERNAL_ERROR"}}
    \cup {H3Event("DataReceived", s, FALSE, e, d, TRUE, "") : e \in BOOLEAN, d \in BOOLEAN}
    \cup {H3Event("HeadersReceived", s, FALSE, e, FALSE, v, "") : e \in BOOLEAN, v \in BOOLEAN}
    \cup {H3Event("TrailersReceived", s, FALSE, e, FALSE, TRUE, "") : e \in BOOLEAN}
\* the H3 events the layer does not support: push-related ones and other shapes
IgnoredH3Events(s) ==
    {H3Event(t, s, TRUE, FALSE, TRUE, TRUE, "H3_NO_ERROR") :
        t \in {"StreamReset", "DataReceived", "HeadersReceived", "TrailersReceived"}}
    \cup {H3Event("Other", s, FALSE, FALSE, FALSE, TRUE, "")}
H3Events(s) == PlainH3Events(s) \cup IgnoredH3Events(s)

\* an H3 event that ends the receiving side of its stream
EndsStream(e) == ~e.push /\ e.type # "Other" /\ (e.stream_ended \/ e.type = "StreamReset")

Command(c, t, s, st, h, e) ==
    [type |-> t, stream_id |-> s, end_stream |-> e, cmd |-> c, status |-> st, h3code |-> h]
ReceiveHttp(t, s, st, e) == Command("ReceiveHttp", t, s, st, "", e)
Log == Command("Log", "", -1, 0, "", FALSE)
Send(t, s, st, h, e) == Command("Send", t, s, st, h, e)

Notification(k, ev, h3) == [h3 |-> h3, kind |-> k, event |-> ev]

\* -------------------------------------------- the wire adapter (h3_conn)
\* Per stream: the state of the sending side (what may still be sent), whether
\* the receiving side has ended, and whether the adapter knows the stream.
NewH3Conn ==
    [send |-> [s \in AllIds |-> "INITIAL"],
     recv_ended |-> [s \in AllIds |-> FALSE],
     opened |-> {},
     next_id |-> 0,
     is_done |-> FALSE,
     pending |-> <<>>]

Returned(c) == [exc |-> "none", conn |-> c]
FrameUnexpected(c) == [exc |-> "H3FrameUnexpected", conn |-> c]

has_sent_headers(c, s) == c.send[s] # "INITIAL"
has_ended(c, s) == s \in c.opened /\ c.send[s] = "AFTER_TRAILERS" /\ c.recv_ended[s]
get_reserved_stream_ids(c) == {s \in c.opened : ~has_ended(c, s)}

after_send(state, end) == IF end THEN "AFTER_TRAILERS" ELSE state

\* a frame that the stream's sending state forbids is refused before anything is sent
send_headers(c, s, status, end) ==
    IF c.send[s] = "AFTER_TRAILERS"
    THEN FrameUnexpected(c)
    ELSE Returned([c EXCEPT
            !.send[s] = after_send(IF @ = "INITIAL" THEN "AFTER_HEADERS"
                                                    ELSE "AFTER_TRAILERS", end),
            !.opened = @ \cup {s},
            !.pending = Append(@, Send("headers", s, status, "", end))])

send_data(c, s, end) ==
    IF c.send[s] # "AFTER_HEADERS"
    THEN FrameUnexpected(c)
    ELSE Returned([c EXCEPT
            !.send[s] = after_send(@, end),
            !.opened = @ \cup {s},
            !.pending = Append(@, Send("data", s, 0, "", end))])

send_trailers(c, s) == send_headers(c, s, 0, TRUE)
end_stream(c, s) == send_data(c, s, TRUE)

reset_stream(c, s, h3code) ==
    Returned([c EXCEPT
        !.send[s] = "AFTER_TRAILERS",
        !.opened = @ \cup {s},
        !.pending = Append(@, Send("reset", s, 0, h3code, FALSE))])

close_connection(c, h3code) ==
    [c EXCEPT !.is_done = TRUE,
              !.pending = Append(@, Send("close", -1, 0, h3code, FALSE))]

\* the flush: the buffered wire output becomes commands
transmit(c) == [conn |-> [c EXCEPT !.pending = <<>>], cmds |-> c.pending]

\* the next free stream id of this side; the id is reserved at once
get_next_available_stream_id(c) ==
    [conn |-> [c EXCEPT !.next_id = @ + 4, !.opened = @ \cup {c.next_id}],
     id |-> c.next_id]

\* what demultiplexing the H3 events evs does to the adapter's stream state
RECURSIVE handle_event(_, _)
handle_event(c, evs) ==
    IF evs = <<>> THEN c
    ELSE LET e == Head(evs)
             c1 == IF e.push \/ e.type = "Other" THEN c
                   ELSE [c EXCEPT !.opened = @ \cup {e.stream_id},
                                  !.recv_ended[e.stream_id] = @ \/ EndsStream(e)]
         IN handle_event(c1, Tail(evs))

\* ------------------------------------------------------ Http3Connection
\* the code of the role's ReceiveProtocolError when none is given
ReceiveProtocolErrorCode(r) == IF r = "server" THEN BAD_REQUEST ELSE BAD_GATEWAY

\* mutant: the CLIENT_CLOSED_REQUEST entry of the table is missing
H3CodeOf_NoCancelEntry(status) == "H3_INTERNAL_ERROR"

\* generic status of an outbound ProtocolError -> H3 error code of the reset
H3CodeOf(status) ==
    IF status = CLIENT_CLOSED_REQUEST THEN "H3_REQUEST_CANCELLED" ELSE "H3_INTERNAL_ERROR"

\* H3 error code of a received StreamReset -> generic status of the ProtocolError
StatusOf(r, h3code) ==
    IF h3code = "H3_REQUEST_CANCELLED" THEN CLIENT_CLOSED_REQUEST
    ELSE ReceiveProtocolErrorCode(r)

\* mutant: the check for headers already sent is missing
send_error_message_IgnoringSentHeaders(c, ev) ==
    /\ ev.flavor = "Response"
    /\ ev.code # NO_RESPONSE

\* mutant: the NO_RESPONSE code is not exempted from the error response
send_error_message_IgnoringNoResponse(c, ev) ==
    /\ ev.flavor = "Response"
    /\ ~has_sent_headers(c, ev.stream_id)

send_error_message(c, ev) ==
    /\ ev.flavor = "Response"
    /\ ~has_sent_headers(c, ev.stream_id)
    /\ ev.code # NO_RESPONSE

\* the error response: headers with :status, then the HTML body ending the stream
SendErrorResponse(c, ev) ==
    LET h == send_headers(c, ev.stream_id, ev.code, FALSE)
    IN IF h.exc # "none" THEN h ELSE send_data(h.conn, ev.stream_id, TRUE)

\* mutant: the stream is not asked whether it has ended
SendProtocolError_NoEndedCheck(c, ev) ==
    IF send_error_message(c, ev) THEN SendErrorResponse(c, ev)
    ELSE reset_stream(c, ev.stream_id, H3CodeOf(ev.code))

SendProtocolError(c, ev) ==
    IF has_ended(c, ev.stream_id) THEN Returned(c)
    ELSE IF send_error_message(c, ev) THEN SendErrorResponse(c, ev)
    ELSE reset_stream(c, ev.stream_id, H3CodeOf(ev.code))

\* the body of the try block: the adapter calls one HttpEvent makes
SendHttpEvent(c, ev) ==
    CASE ev.type = "Data" -> send_data(c, ev.stream_id, FALSE)
      [] ev.type = "Headers" -> send_headers(c, ev.stream_id, 0, ev.end_stream)
      [] ev.type = "Trailers" -> send_trailers(c, ev.stream_id)
      [] ev.type = "EndOfMessage" -> end_stream(c, ev.stream_id)
      [] ev.type = "ProtocolError" -> SendProtocolError(c, ev)
      [] OTHER -> [exc |-> "AssertionError", conn |-> c]

Outcome(c, segs, exc, n) == [exc |-> exc, conn |-> c, segs |-> segs, transmits |-> n]

\* mutant: the flush runs in a finally clause instead of the else clause
HandleHttpEvent_FlushAlways(c, ev) ==
    LET r == SendHttpEvent(c, ev)
        t == transmit(r.conn)
    IN CASE r.exc = "H3FrameUnexpected" -> Outcome(t.conn, <<Log>> \o t.cmds, "none", 1)
         [] r.exc = "AssertionError" -> Outcome(r.conn, <<>>, "AssertionError", 0)
         [] OTHER -> Outcome(t.conn, t.cmds, "none", 1)

\* mutant: a refused HttpEvent is answered with a ProtocolError instead of a log
HandleHttpEvent_ErrorUpward(c, ev) ==
    LET r == SendHttpEvent(c, ev)
        t == transmit(r.conn)
    IN CASE r.exc = "H3FrameUnexpected" ->
                Outcome(r.conn, <<ReceiveHttp("ProtocolError", ev.stream_id, BAD_GATEWAY, FALSE)>>,
                        "none", 0)
         [] r.exc = "AssertionError" -> Outcome(r.conn, <<>>, "AssertionError", 0)
         [] OTHER -> Outcome(t.conn, t.cmds, "none", 1)

\* mutant: the flush is skipped when nothing was buffered
HandleHttpEvent_FlushIfBuffered(c, ev) ==
    LET r == SendHttpEvent(c, ev)
        t == transmit(r.conn)
    IN CASE r.exc = "H3FrameUnexpected" -> Outcome(r.conn, <<Log>>, "none", 0)
         [] r.exc = "AssertionError" -> Outcome(r.conn, <<>>, "AssertionError", 0)
         [] OTHER -> Outcome(t.conn, t.cmds, "none", IF r.conn.pending = <<>> THEN 0 ELSE 1)

\* an HttpEvent: send it; log it if the stream's state forbids it, else flush
HandleHttpEvent(c, ev) ==
    LET r == SendHttpEvent(c, ev)
        t == transmit(r.conn)
    IN CASE r.exc = "H3FrameUnexpected" -> Outcome(r.conn, <<Log>>, "none", 0)
         [] r.exc = "AssertionError" -> Outcome(r.conn, <<>>, "AssertionError", 0)
         [] OTHER -> Outcome(t.conn, t.cmds, "none", 1)

HandleStreamReset(r, c, e) ==
    Outcome(c, <<ReceiveHttp("ProtocolError", e.stream_id, StatusOf(r, e.error_code), FALSE)>>,
            "none", 0)

HandleDataReceived(r, c, e) ==
    Outcome(c,
            (IF e.data THEN <<ReceiveHttp("Data", e.stream_id, 0, FALSE)>> ELSE <<>>)
            \o (IF e.stream_ended THEN <<ReceiveHttp("EndOfMessage", e.stream_id, 0, FALSE)>>
                                  ELSE <<>>),
            "none", 0)

HandleHeadersReceived(r, c, e) ==
    IF ~e.valid
    THEN LET t == transmit(close_connection(c, "H3_GENERAL_PROTOCOL_ERROR"))
         IN Outcome(t.conn, t.cmds, "none", 1)
    ELSE Outcome(c,
            <<ReceiveHttp("Headers", e.stream_id, 0, e.stream_ended)>>
            \o (IF e.stream_ended THEN <<ReceiveHttp("EndOfMessage", e.stream_id, 0, FALSE)>>
                                  ELSE <<>>),
            "none", 0)

HandleTrailersReceived(r, c, e) ==
    Outcome(c,
            <<ReceiveHttp("Trailers", e.stream_id, 0, FALSE)>>
            \o (IF e.stream_ended THEN <<ReceiveHttp("EndOfMessage", e.stream_id, 0, FALSE)>>
                                  ELSE <<>>),
            "none", 0)

\* mutant: the StreamReset branch does not look at the push id
HandleH3Event_ResetWithPush(r, c, e) ==
    CASE e.type = "StreamReset" -> HandleStreamReset(r, c, e)
      [] e.type = "DataReceived" /\ ~e.push -> HandleDataReceived(r, c, e)
      [] e.type = "HeadersReceived" /\ ~e.push -> HandleHeadersReceived(r, c, e)
      [] e.type = "TrailersReceived" /\ ~e.push -> HandleTrailersReceived(r, c, e)
      [] OTHER -> Outcome(c, <<Log>>, "none", 0)

\* one iteration of the loop over the H3 events of a wire notification
HandleH3Event(r, c, e) ==
    CASE e.type = "StreamReset" /\ ~e.push -> HandleStreamReset(r, c, e)
      [] e.type = "DataReceived" /\ ~e.push -> HandleDataReceived(r, c, e)
      [] e.type = "HeadersReceived" /\ ~e.push -> HandleHeadersReceived(r, c, e)
      [] e.type = "TrailersReceived" /\ ~e.push -> HandleTrailersReceived(r, c, e)
      [] OTHER -> Outcome(c, <<Log>>, "none", 0)

\* the ProtocolErrors of a closed connection, one per reserved stream id
CloseErrors(r, c) ==
    LET ids == Ascending(get_reserved_stream_ids(c))
    IN [i \in 1 .. Len(ids) |-> ReceiveHttp("ProtocolError", ids[i], ReceiveProtocolErrorCode(r), FALSE)]

\* ------------------------------------------------------------ Http3Client
\* The commands of cmds are handed upward one by one, every ReceiveHttp with its
\* stream id looked up in their_stream_id; a missing key raises KeyError and
\* ends the handler there.
RECURSIVE Rewrite(_, _)
Rewrite(theirs, cmds) ==
    IF cmds = <<>> THEN [cmds |-> <<>>, ok |-> TRUE]
    ELSE LET c == Head(cmds)
         IN IF c.cmd = "ReceiveHttp" /\ c.stream_id \notin DOMAIN theirs
            THEN [cmds |-> <<>>, ok |-> FALSE]
            ELSE LET rest == Rewrite(theirs, Tail(cmds))
                     d == IF c.cmd = "ReceiveHttp"
                          THEN [c EXCEPT !.stream_id = theirs[c.stream_id]] ELSE c
                 IN [cmds |-> <<d>> \o rest.cmds, ok |-> rest.ok]

\* mutant: the commands are handed upward with the engine's stream ids
Upward_Unrewritten(r, theirs, cmds) == [cmds |-> cmds, ok |-> TRUE]

\* what reaches the layer above of the commands the engine yields
Upward(r, theirs, cmds) ==
    IF r = "client" THEN Rewrite(theirs, cmds) ELSE [cmds |-> cmds, ok |-> TRUE]

\* mutant: what a later H3 event yields is handed upward first
RECURSIVE HandleH3Events_Reversed(_, _, _, _)
HandleH3Events_Reversed(r, theirs, c, evs) ==
    IF evs = <<>> THEN Outcome(c, <<>>, "none", 0)
    ELSE LET h == HandleH3Event(r, c, Head(evs))
             up == Upward(r, theirs, h.segs)
         IN IF ~up.ok
            THEN Outcome(h.conn, <<up.cmds>>, "KeyError", h.transmits)
            ELSE LET rest == HandleH3Events_Reversed(r, theirs, h.conn, Tail(evs))
                 IN Outcome(rest.conn, rest.segs \o <<up.cmds>>, rest.exc,
                            h.transmits + rest.transmits)

\* the loop over the H3 events of one wire notification, as seen from above
RECURSIVE HandleH3Events(_, _, _, _)
HandleH3Events(r, theirs, c, evs) ==
    IF evs = <<>> THEN Outcome(c, <<>>, "none", 0)
    ELSE LET h == HandleH3Event(r, c, Head(evs))
             up == Upward(r, theirs, h.segs)
         IN IF ~up.ok
            THEN Outcome(h.conn, <<up.cmds>>, "KeyError", h.transmits)
            ELSE LET rest == HandleH3Events(r, theirs, h.conn, Tail(evs))
                 IN Outcome(rest.conn, <<up.cmds>> \o rest.segs, rest.exc,
                            h.transmits + rest.transmits)

Handled(lc, ours, theirs, o) ==
    [exc |-> o.exc, conn |-> o.conn, segs |-> o.segs, transmits |-> o.transmits,
     theirs |-> theirs, ours |-> ours, lifecycle |-> lc]

\* Http3Connection._handle_event; theirs is the map the client role rewrites with
Http3Connection_handle_event(r, ours, theirs, c, n) ==
    CASE n.kind = "Start" ->
            Handled("Active", ours, theirs, Outcome(c, <<>>, "none", 0))
      [] n.kind = "HttpEvent" ->
            LET o == HandleHttpEvent(c, n.event)
            IN Handled("Active", ours, theirs,
                       Outcome(o.conn, IF o.segs = <<>> THEN <<>> ELSE <<o.segs>>,
                               o.exc, o.transmits))
      [] n.kind = "QuicStreamEvent" ->
            Handled("Active", ours, theirs,
                    HandleH3Events(r, theirs, handle_event(c, n.h3), n.h3))
      [] n.kind = "ConnectionClosed" ->
            LET up == Upward(r, theirs, CloseErrors(r, c))
                segs == IF up.cmds = <<>> THEN <<>> ELSE <<up.cmds>>
            IN IF up.ok
               THEN Handled("Closed", ours, theirs, Outcome(c, segs, "none", 0))
               ELSE Handled("Active", ours, theirs, Outcome(c, segs, "KeyError", 0))
      [] OTHER ->
            Handled("Active", ours, theirs, Outcome(c, <<>>, "AssertionError", 0))

\* mutant: done without its expect() guard
done_Unguarded(ours, theirs, c, n) ==
    Handled("Closed", ours, theirs, Outcome(c, <<>>, "none", 0))

\* mutant: done forgets the stream-id maps
done_ClearingMaps(ours, theirs, c, n) ==
    Handled("Closed", EmptyMap, EmptyMap,
            Outcome(c, <<>>,
                    IF n.kind \in {"QuicStreamEvent", "HttpEvent", "ConnectionClosed"}
                    THEN "none" ELSE "AssertionError", 0))

\* Http3Connection.done, behind its expect() guard
done(ours, theirs, c, n) ==
    Handled("Closed", ours, theirs,
            Outcome(c, <<>>,
                    IF n.kind \in {"QuicStreamEvent", "HttpEvent", "ConnectionClosed"}
                    THEN "none" ELSE "AssertionError", 0))

\* mutant: the new physical id is not entered into their_stream_id
Http3Client_handle_event_NoInverse(ours, theirs, c, n) ==
    IF n.kind = "HttpEvent"
    THEN IF n.event.stream_id \in DOMAIN ours
         THEN Http3Connection_handle_event("client", ours, theirs, c,
                  [n EXCEPT !.event.stream_id = ours[n.event.stream_id]])
         ELSE LET a == get_next_available_stream_id(c)
              IN Http3Connection_handle_event("client",
                     Put(ours, n.event.stream_id, a.id),
                     theirs,
                     a.conn,
                     [n EXCEPT !.event.stream_id = a.id])
    ELSE Http3Connection_handle_event("client", ours, theirs, c, n)

\* mutant: the lookup in our_stream_id is skipped while stream ids are left
Http3Client_handle_event_Reallocating(ours, theirs, c, n) ==
    IF n.kind = "HttpEvent"
    THEN IF n.event.stream_id \in DOMAIN ours /\ c.next_id >= 4 * NumStreams
         THEN Http3Connection_handle_event("client", ours, theirs, c,
                  [n EXCEPT !.event.stream_id = ours[n.event.stream_id]])
         ELSE LET a == get_next_available_stream_id(c)
              IN Http3Connection_handle_event("client",
                     Put(ours, n.event.stream_id, a.id),
                     Put(theirs, a.id, n.event.stream_id),
                     a.conn,
                     [n EXCEPT !.event.stream_id = a.id])
    ELSE Http3Connection_handle_event("client", ours, theirs, c, n)

\* Http3Client._handle_event
Http3Client_handle_event(ours, theirs, c, n) ==
    IF n.kind = "HttpEvent"
    THEN IF n.event.stream_id \in DOMAIN ours
         THEN Http3Connection_handle_event("client", ours, theirs, c,
                  [n EXCEPT !.event.stream_id = ours[n.event.stream_id]])
         ELSE LET a == get_next_available_stream_id(c)
              IN Http3Connection_handle_event("client",
                     Put(ours, n.event.stream_id, a.id),
                     Put(theirs, a.id, n.event.stream_id),
                     a.conn,
                     [n EXCEPT !.event.stream_id = a.id])
    ELSE Http3Connection_handle_event("client", ours, theirs, c, n)

\* the handler bound to the instance when the notification arrives
handle_event_of(r, lc, ours, theirs, c, n) ==
    IF lc = "Closed" THEN done(ours, theirs, c, n)
    ELSE IF r = "client" THEN Http3Client_handle_event(ours, theirs, c, n)
    ELSE Http3Connection_handle_event("server", ours, theirs, c, n)

\* ------------------------------------------------------------------ state
VARIABLES
    role,             \* which of Http3Server / Http3Client the instance is
    lifecycle,        \* "Active": _handle_event is the class's; "Closed": it is done
    our_stream_id,    \* Http3Client: logical -> physical
    their_stream_id,  \* Http3Client: physical -> logical
    h3_conn,          \* the wire adapter
    last,             \* the notification handled last
    out,              \* the commands it yielded, one segment per H3 event
    raised,           \* the exception that ended it, or "none"
    transmits,        \* how often it flushed the adapter
    terminals,        \* per logical stream: the terminal events delivered upward
    touched,          \* logical streams with an event handled while Active
    offered,          \* logical streams named by any outbound HttpEvent
    rt                \* the status-code round trip

core == <<role, lifecycle, our_stream_id, their_stream_id, h3_conn>>
io == <<last, out, raised, transmits>>
hist == <<terminals, touched, offered>>
vars == <<role, lifecycle, our_stream_id, their_stream_id, h3_conn,
          last, out, raised, transmits, terminals, touched, offered, rt>>

HistIds == AllIds \cup LogicalIds(NumStreams)
RtIdle == [status |-> 0, h3code |-> "", pc |-> "idle", back |-> 0]

InitConnection ==
    /\ role \in Roles
    /\ lifecycle = "Active"
    /\ our_stream_id = EmptyMap
    /\ their_stream_id = EmptyMap
    /\ h3_conn = [NewH3Conn EXCEPT !.next_id = IF role = "client" THEN 0 ELSE 1]
    /\ last = Notification("", NoEvent, <<>>)
    /\ out = <<>>
    /\ raised = "none"
    /\ transmits = 0
    /\ terminals = [l \in HistIds |-> <<>>]
    /\ touched = {}
    /\ offered = {}

Init == InitConnection /\ rt = RtIdle

\* what is observed of a run: the last notification and its outcome ("io"), or the
\* history of the logical streams ("hist")
Full == [obs |-> "io", streams |-> NumStreams, events |-> 1]
Batch == [obs |-> "io", streams |-> 1, events |-> MaxEvents]
History == [obs |-> "hist", streams |-> NumStreams, events |-> 1]

IsTerminal(c) == c.cmd = "ReceiveHttp" /\ c.type \in {"EndOfMessage", "ProtocolError"}

RECURSIVE Delivered(_, _)
Delivered(t, cmds) ==
    IF cmds = <<>> THEN t
    ELSE LET c == Head(cmds)
             t1 == IF IsTerminal(c) /\ Len(t[c.stream_id]) < 2
                   THEN [t EXCEPT ![c.stream_id] = Append(@, c.type)] ELSE t
         IN Delivered(t1, Tail(cmds))

\* the logical streams, known to the adapter afterwards, that a notification
\* handled while Active is about
StreamsOf(n, conn) ==
    IF n.kind = "HttpEvent"
    THEN IF role = "server" THEN {n.event.stream_id} \cap conn.opened
                            ELSE {n.event.stream_id}
    ELSE IF n.kind = "QuicStreamEvent"
    THEN LET phys == {n.h3[i].stream_id : i \in {j \in 1 .. Len(n.h3) :
                                             ~n.h3[j].push /\ n.h3[j].type # "Other"}}
         IN IF role = "server" THEN phys
            ELSE {their_stream_id[s] : s \in phys \cap DOMAIN their_stream_id}
    ELSE {}

Observe(p, n, r) ==
    IF p.obs = "io"
    THEN /\ last' = n
         /\ out' = r.segs
         /\ raised' = r.exc
         /\ transmits' = r.transmits
         /\ UNCHANGED hist
    ELSE /\ terminals' = Delivered(terminals, Flatten(r.segs))
         /\ touched' = IF lifecycle = "Active" THEN touched \cup StreamsOf(n, r.conn)
                                                ELSE touched
         /\ offered' = IF n.kind = "HttpEvent" THEN offered \cup {n.event.stream_id}
                                               ELSE offered
         /\ UNCHANGED io

\* the layer handles notification n
Step(p, n) ==
    LET r == handle_event_of(role, lifecycle, our_stream_id, their_stream_id, h3_conn, n)
    IN /\ lifecycle' = r.lifecycle
       /\ our_stream_id' = r.ours
       /\ their_stream_id' = r.theirs
       /\ h3_conn' = r.conn
       /\ UNCHANGED <<role, rt>>
       /\ Observe(p, n, r)

\* ------------------------------------------------------------- the inputs
\* the stream ids the proxy's other half names in outbound HttpEvents
OutboundIds(p) == IF role = "server" THEN OwnIds(p.streams) ELSE LogicalIds(p.streams)

\* the streams the peer can be active on: those the initiator has opened and the
\* responder's own, as long as their receiving side has not ended
WireIds(p) ==
    {s \in (IF role = "server" THEN OwnIds(p.streams)
            ELSE {o \in OwnIds(p.streams) : o < h3_conn.next_id} \cup PeerIds) :
        ~h3_conn.recv_ended[s]}

\* the H3 event lists of at most k events on stream s; nothing follows the event
\* that ends the stream
Demux(s, k) ==
    {evs \in UNION {[1 .. n -> H3Events(s)] : n \in 0 .. k} :
        \A i \in 1 .. (Len(evs) - 1) : ~EndsStream(evs[i])}

\* ------------------------------------------------------------ the actions
Start(p) == Step(p, Notification("Start", NoEvent, <<>>))

OutboundHttpEvent(p) ==
    \E ev \in HttpEvents(SendFlavor(role), OutboundIds(p)) :
        Step(p, Notification("HttpEvent", ev, <<>>))

WireActivity(p) ==
    \E s \in WireIds(p) : \E evs \in Demux(s, p.events) :
        Step(p, Notification("QuicStreamEvent", NoEvent, evs))

ConnectionClosed(p) == Step(p, Notification("ConnectionClosed", NoEvent, <<>>))

UnexpectedEvent(p) == Step(p, Notification("Unexpected", NoEvent, <<>>))

Next ==
    \/ Start(Full)
    \/ OutboundHttpEvent(Full)
    \/ WireActivity(Full)
    \/ ConnectionClosed(Full)
    \/ UnexpectedEvent(Full)

Spec == Init /\ [][Next]_vars

NextBatch ==
    \/ Start(Batch)
    \/ OutboundHttpEvent(Batch)
    \/ WireActivity(Batch)
    \/ ConnectionClosed(Batch)
    \/ UnexpectedEvent(Batch)

SpecBatch == Init /\ [][NextBatch]_vars

NextHistory ==
    \/ Start(History)
    \/ OutboundHttpEvent(History)
    \/ WireActivity(History)
    \/ ConnectionClosed(History)
    \/ UnexpectedEvent(History)

SpecHistory == Init /\ [][NextHistory]_vars

\* ---------------------------------------------- the status-code round trip
\* A ProtocolError with status rt.status is sent as a stream reset; the reset is
\* received by a connection of role `role` and becomes a ProtocolError again.
InitCodes ==
    /\ InitConnection
    /\ rt \in [status : StatusCodes, h3code : {""}, pc : {"start"}, back : {0}]

SendReset ==
    /\ rt.pc = "start"
    /\ rt' = [rt EXCEPT !.pc = "reset", !.h3code = H3CodeOf(rt.status)]
    /\ UNCHANGED <<core, io, hist>>

ReceiveReset ==
    /\ rt.pc = "reset"
    /\ rt' = [rt EXCEPT !.pc = "done", !.back = StatusOf(role, rt.h3code)]
    /\ UNCHANGED <<core, io, hist>>

NextCodes == SendReset \/ ReceiveReset

SpecCodes == InitCodes /\ [][NextCodes]_vars

\* ================================================================ claims
Cmds == Flatten(out)
CmdsNext == Flatten(out')

IsInbound(c) == c.cmd = "ReceiveHttp"
NoInbound(cmds) == \A i \in 1 .. Len(cmds) : ~IsInbound(cmds[i])
NoSend(cmds) == \A i \in 1 .. Len(cmds) : cmds[i].cmd # "Send"

\* how many ProtocolErrors of cmds carry stream id l
ErrorsFor(cmds, l) ==
    Cardinality({i \in 1 .. Len(cmds) : IsInbound(cmds[i]) /\ cmds[i].type = "ProtocolError"
                                        /\ cmds[i].stream_id = l})

\* the id under which physical stream s is known above the layer
UpwardId(s) ==
    IF role = "client" /\ s \in DOMAIN their_stream_id THEN their_stream_id[s] ELSE s

\* C1: a connection-closed notification handled while Active delivers exactly
\* one ProtocolError for every stream id the adapter reports as reserved, and the
\* notification after a connection-closed one delivers no inbound event.
C1_ClosedReportsEveryReserved ==
    [][/\ (lifecycle = "Active" /\ last'.kind = "ConnectionClosed")
            => \A s \in get_reserved_stream_ids(h3_conn) :
                   ErrorsFor(CmdsNext, UpwardId(s)) = 1
       /\ last.kind = "ConnectionClosed" => NoInbound(CmdsNext)]_vars

\* C2: once the connection is Closed (nothing is delivered from then on), every
\* logical stream the layer handled an event for has had a terminal event
\* (EndOfMessage or ProtocolError) delivered upward.
C2_EveryStreamTerminates ==
    lifecycle = "Closed" => \A l \in touched : terminals[l] # <<>>

\* C3: no logical stream is delivered a second ProtocolError, nor a ProtocolError
\* after its EndOfMessage.
C3_SingleTerminalError ==
    \A l \in HistIds :
        /\ terminals[l] # <<"ProtocolError", "ProtocolError">>
        /\ terminals[l] # <<"EndOfMessage", "ProtocolError">>

\* the two maps of the client role are inverse to each other
InversePair ==
    /\ \A l \in DOMAIN our_stream_id :
          /\ our_stream_id[l] \in DOMAIN their_stream_id
          /\ their_stream_id[our_stream_id[l]] = l
    /\ \A s \in DOMAIN their_stream_id :
          /\ their_stream_id[s] \in DOMAIN our_stream_id
          /\ our_stream_id[their_stream_id[s]] = s

\* C4 as stated: every logical id named by an outbound HttpEvent, whenever it
\* arrived, has an entry in our_stream_id, and the two maps are inverse.
C4_EveryOfferedIdMapped ==
    role = "client" => (offered \subseteq DOMAIN our_stream_id /\ InversePair)

\* C4 amended: every logical id named by an outbound HttpEvent that was handled
\* while the connection was Active has an entry in our_stream_id, and the two
\* maps are inverse to each other (so no two logical ids share a physical id).
C4_ActiveIdsMapped ==
    role = "client" => (touched \subseteq DOMAIN our_stream_id /\ InversePair)

C4_TwoIdsMapped ==
    /\ role = "client"
    /\ Cardinality(DOMAIN our_stream_id) = 2
    /\ Cardinality(DOMAIN their_stream_id) = 2
    /\ lifecycle = "Closed"

\* the physical stream an outbound HttpEvent handled while Active acted on
PhysNext(ev) == IF role = "server" THEN ev.stream_id ELSE our_stream_id'[ev.stream_id]

ErrorResponse(s, code) ==
    <<Send("headers", s, code, "", FALSE), Send("data", s, 0, "", TRUE)>>
IsResetOf(cmds, s) ==
    Len(cmds) = 1 /\ cmds[1].cmd = "Send" /\ cmds[1].type = "reset" /\ cmds[1].stream_id = s

ProtocolErrorSent == lifecycle = "Active" /\ last'.kind = "HttpEvent"
                     /\ last'.event.type = "ProtocolError"

\* C5 as stated: an outbound ProtocolError on a stream without sent headers and
\* a code other than NO_RESPONSE sends the error response and no reset; on a
\* stream with sent headers it sends a reset and no headers.
C5_ErrorResponseOrReset ==
    [][ProtocolErrorSent =>
        LET ev == last'.event
            s == PhysNext(ev)
        IN /\ (~has_sent_headers(h3_conn, s) /\ ev.code # NO_RESPONSE)
                  => CmdsNext = ErrorResponse(s, ev.code)
           /\ has_sent_headers(h3_conn, s) => IsResetOf(CmdsNext, s)]_vars

\* C5 amended: an outbound Response-flavored ProtocolError on a stream without
\* sent headers and a code other than NO_RESPONSE sends the error response and
\* no reset; an outbound ProtocolError on a stream that has sent headers and has
\* not fully ended sends a reset and no headers.
C5_ResponseErrorOrReset ==
    [][ProtocolErrorSent =>
        LET ev == last'.event
            s == PhysNext(ev)
        IN /\ (ev.flavor = "Response" /\ ~has_sent_headers(h3_conn, s)
                                      /\ ev.code # NO_RESPONSE)
                  => CmdsNext = ErrorResponse(s, ev.code)
           /\ (has_sent_headers(h3_conn, s) /\ ~has_ended(h3_conn, s))
                  => IsResetOf(CmdsNext, s)]_vars

C5_ErrorResponseSent ==
    /\ last.kind = "HttpEvent"
    /\ last.event.type = "ProtocolError"
    /\ last.event.code = BAD_GATEWAY
    /\ Cmds = ErrorResponse(last.event.stream_id, BAD_GATEWAY)

\* C6: an H3 event with a push id that the loop reaches yields exactly one Log
\* command, no inbound event, and the connection is Active afterwards.
C6_PushOnlyLogged ==
    last.kind = "QuicStreamEvent" =>
        \A i \in 1 .. Len(out) :
            last.h3[i].push => (out[i] = <<Log>> /\ lifecycle = "Active")

C6_PushHandled ==
    /\ last.kind = "QuicStreamEvent"
    /\ \E i \in 1 .. Len(out) : last.h3[i].push /\ last.h3[i].type = "StreamReset"
    /\ \E i \in 1 .. Len(out) : last.h3[i].push /\ last.h3[i].type = "HeadersReceived"

\* C7: a status sent as a reset and received back is CLIENT_CLOSED_REQUEST if it
\* was CLIENT_CLOSED_REQUEST; any other status travels as H3_INTERNAL_ERROR and
\* comes back as the receiving role's default code.
C7_CodeRoundTrip ==
    rt.pc = "done" =>
        IF rt.status = CLIENT_CLOSED_REQUEST
        THEN rt.back = CLIENT_CLOSED_REQUEST
        ELSE /\ rt.h3code = "H3_INTERNAL_ERROR"
             /\ rt.back = IF role = "server" THEN BAD_REQUEST ELSE BAD_GATEWAY

C7_CancelReturned ==
    rt.pc = "done" /\ rt.status = CLIENT_CLOSED_REQUEST /\ rt.back = CLIENT_CLOSED_REQUEST

BadHeaders(e) == e.type = "HeadersReceived" /\ ~e.push /\ ~e.valid
CloseSent == <<Send("close", -1, 0, "H3_GENERAL_PROTOCOL_ERROR", FALSE)>>

\* C8: headers that fail to parse close the connection with
\* H3_GENERAL_PROTOCOL_ERROR and flush, deliver nothing upward, and nothing is
\* delivered or sent afterwards: not for the remaining H3 events of the
\* notification, not for any later notification.
C8_MalformedHeadersEndProcessing ==
    [][/\ last'.kind = "QuicStreamEvent" =>
            \A i \in 1 .. Len(out') :
                BadHeaders(last'.h3[i]) =>
                    /\ out'[i] = CloseSent
                    /\ \A j \in (i + 1) .. Len(out') :
                           NoInbound(out'[j]) /\ NoSend(out'[j])
       /\ h3_conn.is_done => (NoInbound(CmdsNext) /\ NoSend(CmdsNext))]_vars

\* the adapter refuses the frame of ev on stream s in state c
Refused(c, ev, s) ==
    \/ ev.type \in {"Data", "EndOfMessage"} /\ c.send[s] # "AFTER_HEADERS"
    \/ ev.type \in {"Headers", "Trailers"} /\ c.send[s] = "AFTER_TRAILERS"

\* C9: an outbound HttpEvent the adapter refuses yields exactly one Log command
\* and no flush, raises nothing, leaves every stream's send and receive state
\* and the output buffer as they were, and leaves the connection Active.
C9_RefusedEventDropped ==
    [][(/\ lifecycle = "Active"
        /\ last'.kind = "HttpEvent"
        /\ Refused(h3_conn, last'.event, PhysNext(last'.event)))
       => /\ out' = <<(<<Log>>)>>
          /\ transmits' = 0
          /\ raised' = "none"
          /\ lifecycle' = "Active"
          /\ h3_conn'.send = h3_conn.send
          /\ h3_conn'.recv_ended = h3_conn.recv_ended
          /\ h3_conn'.pending = h3_conn.pending]_vars

C9_EventDropped ==
    /\ last.kind = "HttpEvent"
    /\ last.event.type = "EndOfMessage"
    /\ out = <<(<<Log>>)>>
    /\ transmits = 0
    /\ lifecycle = "Active"
    /\ h3_conn.opened # {}

\* C10: the lifecycle changes only from Active to Closed and only on a
\* connection-closed notification; in Closed nothing changes any more, wire
\* activity, HttpEvents and connection-closed yield no command and no adapter
\* call, and every other notification raises an assertion error.
C10_ClosedIsQuiescent ==
    [][/\ lifecycle' # lifecycle =>
            (lifecycle = "Active" /\ lifecycle' = "Closed"
                                  /\ last'.kind = "ConnectionClosed")
       /\ lifecycle = "Closed" =>
            /\ lifecycle' = "Closed"
            /\ out' = <<>>
            /\ transmits' = 0
            /\ h3_conn' = h3_conn
            /\ our_stream_id' = our_stream_id
            /\ their_stream_id' = their_stream_id
            /\ (raised' = "AssertionError") <=>
                   (last'.kind \notin {"QuicStreamEvent", "HttpEvent", "ConnectionClosed"})
            /\ raised' \in {"none", "AssertionError"}]_vars

C10_StartRejectedWhenClosed ==
    /\ lifecycle = "Closed"
    /\ last.kind = "Start"
    /\ raised = "AssertionError"
    /\ role = "client"

\* C11: in the client role every inbound event delivered upward carries the
\* logical id their_stream_id[P] of the physical stream P whose wire event (or
\* whose reservation, at close) caused it, never a physical id; so an event
\* caused by activity on our_stream_id[L] is delivered with stream id L.
C11_InboundCarriesLogicalId ==
    role = "client" =>
        /\ \A i \in 1 .. Len(Cmds) :
              IsInbound(Cmds[i]) => /\ Cmds[i].stream_id \notin AllIds
                                    /\ Cmds[i].stream_id \in DOMAIN our_stream_id
        /\ last.kind = "QuicStreamEvent" =>
              \A i \in 1 .. Len(out) : \A j \in 1 .. Len(out[i]) :
                  IsInbound(out[i][j]) =>
                      LET P == last.h3[i].stream_id
                      IN /\ P \in DOMAIN their_stream_id
                         /\ out[i][j].stream_id = their_stream_id[P]
                         /\ our_stream_id[out[i][j].stream_id] = P
        /\ last.kind = "ConnectionClosed" =>
              \A i \in 1 .. Len(Cmds) :
                  IsInbound(Cmds[i]) =>
                      \E P \in get_reserved_stream_ids(h3_conn) \cap DOMAIN their_stream_id :
                          Cmds[i].stream_id = their_stream_id[P]

C11_LogicalIdDelivered ==
    /\ role = "client"
    /\ last.kind = "QuicStreamEvent"
    /\ Len(last.h3) = 1
    /\ last.h3[1].stream_id = 4
    /\ 4 \in DOMAIN their_stream_id
    /\ Len(out) = 1
    /\ out[1] = <<ReceiveHttp("EndOfMessage", their_stream_id[4], 0, FALSE)>>

\* what an outbound HttpEvent for logical id L does to the maps and the adapter
AllocatesOrReuses(L) ==
    /\ L \notin DOMAIN our_stream_id =>
          /\ h3_conn'.next_id = h3_conn.next_id + 4
          /\ h3_conn.next_id \notin DOMAIN their_stream_id
          /\ our_stream_id' = Put(our_stream_id, L, h3_conn.next_id)
          /\ their_stream_id' = Put(their_stream_id, h3_conn.next_id, L)
    /\ L \in DOMAIN our_stream_id =>
          /\ h3_conn'.next_id = h3_conn.next_id
          /\ our_stream_id' = our_stream_id
          /\ their_stream_id' = their_stream_id
    /\ L \in DOMAIN our_stream_id'
    /\ \A i \in 1 .. Len(CmdsNext) :
          CmdsNext[i].cmd = "Send" => CmdsNext[i].stream_id = our_stream_id'[L]
    /\ \A s \in AllIds \ {our_stream_id'[L]} :
          /\ h3_conn'.send[s] = h3_conn.send[s]
          /\ (s \in h3_conn'.opened) = (s \in h3_conn.opened)

\* C12 as stated: in the client role the first outbound HttpEvent for a logical
\* id without a map entry allocates exactly one physical id and records both
\* directions; every later one allocates nothing and acts on the same physical id.
C12_FirstEventAllocates ==
    [][(role = "client" /\ last'.kind = "HttpEvent")
          => AllocatesOrReuses(last'.event.stream_id)]_vars

\* C12 amended: in the client role, while the connection is Active, the first
\* outbound HttpEvent for a logical id without a map entry allocates exactly one
\* physical id and records both directions; every later one allocates nothing
\* and acts on the same physical id.
C12_ActiveFirstEventAllocates ==
    [][(role = "client" /\ lifecycle = "Active" /\ last'.kind = "HttpEvent")
          => AllocatesOrReuses(last'.event.stream_id)]_vars

C12_SecondEventSameStream ==
    /\ role = "client"
    /\ lifecycle = "Active"
    /\ last.kind = "HttpEvent"
    /\ last.event.type = "EndOfMessage"
    /\ last.event.stream_id \in DOMAIN our_stream_id
    /\ h3_conn.next_id = 4
    /\ Cmds = <<Send("data", our_stream_id[last.event.stream_id], 0, "", TRUE)>>

\* the reset the claim's table prescribes for an outbound ProtocolError with this code
ResetFor(s, code) ==
    <<Send("reset", s, 0,
           IF code = CLIENT_CLOSED_REQUEST THEN "H3_REQUEST_CANCELLED"
                                           ELSE "H3_INTERNAL_ERROR",
           FALSE)>>

\* C13: an outbound ProtocolError on a stream that has not fully ended sends
\* the error response (and no reset) if it is Response-flavored, no headers were
\* sent on the stream and its code is not NO_RESPONSE; in every other case it
\* sends one reset (and nothing else), with H3_REQUEST_CANCELLED for
\* CLIENT_CLOSED_REQUEST and H3_INTERNAL_ERROR for any other code.
C13_ErrorDecisionTable ==
    [][(ProtocolErrorSent /\ ~has_ended(h3_conn, PhysNext(last'.event))) =>
        LET ev == last'.event
            s == PhysNext(ev)
        IN IF ev.flavor = "Response" /\ ~has_sent_headers(h3_conn, s)
                                     /\ ev.code # NO_RESPONSE
           THEN CmdsNext = ErrorResponse(s, ev.code)
           ELSE CmdsNext = ResetFor(s, ev.code)]_vars

C13_NoResponseReset ==
    /\ role = "server"
    /\ last.kind = "HttpEvent"
    /\ last.event.type = "ProtocolError"
    /\ last.event.code = NO_RESPONSE
    /\ Cmds = ResetFor(last.event.stream_id, NO_RESPONSE)
    /\ ~has_ended(h3_conn, last.event.stream_id)

\* C14: an outbound ProtocolError for a physical stream that has fully ended
\* sends nothing (no headers, no data, no reset) and leaves the adapter's
\* per-stream state as it was.
C14_EndedStreamUntouched ==
    [][(ProtocolErrorSent /\ has_ended(h3_conn, PhysNext(last'.event))) =>
          /\ out' = <<>>
          /\ raised' = "none"
          /\ h3_conn'.send = h3_conn.send
          /\ h3_conn'.recv_ended = h3_conn.recv_ended
          /\ h3_conn'.opened = h3_conn.opened
          /\ h3_conn'.pending = h3_conn.pending]_vars

C14_ErrorOnEndedStream ==
    /\ lifecycle = "Active"
    /\ last.kind = "HttpEvent"
    /\ last.event.type = "ProtocolError"
    /\ out = <<>>
    /\ raised = "none"
    /\ has_ended(h3_conn, IF role = "client" THEN our_stream_id[last.event.stream_id]
                                           ELSE last.event.stream_id)

\* the inbound events the claim's table lists for wire event e, delivered as stream l
EndIfEnded(e, l) ==
    IF e.stream_ended THEN <<ReceiveHttp("EndOfMessage", l, 0, FALSE)>> ELSE <<>>
Emitted(e, l) ==
    CASE e.type = "DataReceived" ->
            (IF e.data THEN <<ReceiveHttp("Data", l, 0, FALSE)>> ELSE <<>>) \o EndIfEnded(e, l)
      [] e.type = "HeadersReceived" ->
            <<ReceiveHttp("Headers", l, 0, e.stream_ended)>> \o EndIfEnded(e, l)
      [] e.type = "TrailersReceived" ->
            <<ReceiveHttp("Trailers", l, 0, FALSE)>> \o EndIfEnded(e, l)

InTable(e) ==
    /\ ~e.push
    /\ e.type \in {"DataReceived", "HeadersReceived", "TrailersReceived"}
    /\ e.valid

\* C15: every wire event without push id that a wire-activity notification
\* brings while the connection is Active emits exactly the inbound events of the
\* table: Data iff the payload is non-empty, Headers (when they parse) or
\* Trailers, and then one EndOfMessage, last, iff the event ends the stream.
C15_EmissionTable ==
    [][(lifecycle = "Active" /\ last'.kind = "QuicStreamEvent") =>
          \A i \in 1 .. Len(last'.h3) :
              InTable(last'.h3[i]) =>
                  /\ i <= Len(out')
                  /\ out'[i] = Emitted(last'.h3[i], UpwardId(last'.h3[i].stream_id))]_vars

\* the kinds of inbound event that wire event e can cause
CausedBy(e) ==
    CASE e.push \/ e.type = "Other" -> {}
      [] e.type = "StreamReset" -> {"ProtocolError"}
      [] e.type = "DataReceived" -> {"Data", "EndOfMessage"}
      [] e.type = "HeadersReceived" -> {"Headers", "EndOfMessage"}
      [] e.type = "TrailersReceived" -> {"Trailers", "EndOfMessage"}

\* the physical stream of the HttpEvent handled last
PhysOfLast ==
    IF role = "client" THEN our_stream_id[last.event.stream_id] ELSE last.event.stream_id

\* C16: nothing is reordered.  The commands of a wire-activity notification come
\* in the order of its wire events: the i-th group of commands is caused by the
\* i-th wire event (its kinds of inbound event, on that event's stream under its
\* upward id) and no group exists for an event the loop did not reach; the
\* sends an outbound HttpEvent yields are on the physical stream of its logical
\* id; and no send stays buffered beyond its notification, so sends of later
\* notifications cannot overtake it.
C16_OrderPreserved ==
    /\ h3_conn.pending = <<>>
    /\ last.kind = "QuicStreamEvent" =>
          /\ Len(out) <= Len(last.h3)
          /\ \A i \in 1 .. Len(out) : \A j \in 1 .. Len(out[i]) :
                IsInbound(out[i][j]) =>
                    /\ out[i][j].type \in CausedBy(last.h3[i])
                    /\ out[i][j].stream_id = UpwardId(last.h3[i].stream_id)
                    /\ out[i][j].type = "EndOfMessage" => j = Len(out[i])
    /\ last.kind = "HttpEvent" =>
          \A i \in 1 .. Len(Cmds) :
              Cmds[i].cmd = "Send" => Cmds[i].stream_id = PhysOfLast

C16_TwoEventsInOrder ==
    /\ role = "client"
    /\ last.kind = "QuicStreamEvent"
    /\ Len(last.h3) = 2
    /\ last.h3[1].type = "HeadersReceived"
    /\ last.h3[2].type = "DataReceived"
    /\ last.h3[1].stream_id \in DOMAIN their_stream_id
    /\ out = << <<ReceiveHttp("Headers", their_stream_id[last.h3[1].stream_id], 0, FALSE)>>,
                <<ReceiveHttp("Data", their_stream_id[last.h3[1].stream_id], 0, FALSE),
                  ReceiveHttp("EndOfMessage", their_stream_id[last.h3[1].stream_id], 0, FALSE)>> >>

\* the HttpEvent shapes the layer translates
Translated(ev) == ev.type \in {"Data", "Headers", "Trailers", "EndOfMessage", "ProtocolError"}

\* C17: while Active, an outbound HttpEvent of a translated shape that the
\* adapter does not refuse is followed, in its own notification, by exactly one
\* flush of the adapter and raises nothing; this includes a ProtocolError on a
\* stream that has fully ended, for which nothing was sent.
C17_OneFlushPerEvent ==
    [][(/\ lifecycle = "Active"
        /\ last'.kind = "HttpEvent"
        /\ Translated(last'.event)
        /\ ~Refused(h3_conn, last'.event, PhysNext(last'.event)))
       => /\ transmits' = 1
          /\ raised' = "none"
          /\ h3_conn'.pending = <<>>
          /\ NoInbound(CmdsNext)
          /\ \A i \in 1 .. Len(CmdsNext) : CmdsNext[i].cmd = "Send"]_vars

C17_FlushAfterNothingSent ==
    /\ role = "server"
    /\ lifecycle = "Active"
    /\ last.kind = "HttpEvent"
    /\ last.event.type = "ProtocolError"
    /\ has_ended(h3_conn, last.event.stream_id)
    /\ Cmds = <<>>
    /\ transmits = 1

\* map g has every entry of map f
Extends(g, f) == \A k \in DOMAIN f : k \in DOMAIN g /\ g[k] = f[k]

\* C18: the entries of our_stream_id and their_stream_id are never removed or
\* changed, and the maps change only when an outbound HttpEvent is handled in
\* the Active state of the client role: start notifications, wire activity,
\* connection-closed and everything handled in the Closed state leave them alone.
C18_MapsOnlyGrow ==
    [][/\ Extends(our_stream_id', our_stream_id)
       /\ Extends(their_stream_id', their_stream_id)
       /\ (our_stream_id' # our_stream_id \/ their_stream_id' # their_stream_id)
             => (role = "client" /\ lifecycle = "Active" /\ last'.kind = "HttpEvent")]_vars

C18_ClosedKeepsMaps ==
    /\ role = "client"
    /\ lifecycle = "Closed"
    /\ last.kind = "HttpEvent"
    /\ Cardinality(DOMAIN our_stream_id) = 1
    /\ Cardinality(DOMAIN their_stream_id) = 1
    /\ last.event.stream_id \notin DOMAIN our_stream_id

\* C19: in the client role the lookup their_stream_id[P] is defined for every
\* inbound event the engine yields: no notification ends in a failed lookup, and
\* while the connection is Active every stream id the adapter reports as
\* reserved (for which a close would yield a ProtocolError) has a map entry.
C19_InverseLookupDefined ==
    role = "client" =>
        /\ raised # "KeyError"
        /\ lifecycle = "Active" =>
              get_reserved_stream_ids(h3_conn) \subseteq DOMAIN their_stream_id

OnlySends(cmds) == \A i \in 1 .. Len(cmds) : cmds[i].cmd = "Send"

\* C20: an outbound HttpEvent or a start notification delivers no inbound event
\* and leaves the lifecycle state as it is; an HttpEvent yields nothing but
\* wire sends from the flush, or one log command, and a start notification
\* yields nothing and touches neither the adapter nor the maps; inbound events
\* come only from wire-activity and connection-closed notifications.
C20_OutboundYieldsNoInbound ==
    [][/\ last'.kind \in {"HttpEvent", "Start"} =>
             /\ NoInbound(CmdsNext)
             /\ lifecycle' = lifecycle
       /\ last'.kind = "HttpEvent" => (OnlySends(CmdsNext) \/ out' = <<(<<Log>>)>>)
       /\ last'.kind = "Start" =>
             /\ out' = <<>>
             /\ h3_conn' = h3_conn
             /\ our_stream_id' = our_stream_id
             /\ their_stream_id' = their_stream_id
       /\ ~NoInbound(CmdsNext) => last'.kind \in {"QuicStreamEvent", "ConnectionClosed"}]_vars

C20_StartAfterActivity ==
    /\ last.kind = "Start"
    /\ lifecycle = "Active"
    /\ out = <<>>
    /\ raised = "none"
    /\ get_reserved_stream_ids(h3_conn) # {}

====
